---------------------------- MODULE Spec2Model ----------------------------
(***************************************************************************)
(* A model of src/Webscrapebot.py: the retry loop of main(), the session   *)
(* life cycle of BrowserManager (create_driver, rate_limit, quit), and the *)
(* extraction and deduplication of fare records in scrape_choose_flights   *)
(* and main.                                                               *)
(*                                                                         *)
(* Texts are tuples of one-character strings.  Money is counted in cents,  *)
(* the value ratio (cpp) in hundredths of a cent per point, wall-clock     *)
(* time in seconds.                                                        *)
(***************************************************************************)
EXTENDS Integers, Sequences, FiniteSets, TLC

(***************************************************************************)
(* Bounds of the model.                                                    *)
(***************************************************************************)
MaxRetries == 3      \* ScraperConfig.max_retries ranges over 1..MaxRetries
MaxRate == 2         \* ScraperConfig.requests_per_hour ranges over 1..MaxRate
MaxNodes == 3        \* a fetched document holds at most MaxNodes fare nodes

(***************************************************************************)
(* Program constants.                                                      *)
(***************************************************************************)
HourSeconds == 3600      \* rate_limit: the window
BackoffBase == 5         \* main: retry_delay = 2 ** attempt * 5
ProxyRetryLimit == 2     \* create_driver: retry_count >= 2 / retry_count < 2
DefaultTaxesCents == 560 \* ScraperConfig.default_taxes = 5.60
DefaultMaxRetries == 5   \* ScraperConfig.max_retries
DefaultRequestsPerHour == 8 \* ScraperConfig.requests_per_hour

(***************************************************************************)
(* Text helpers.                                                           *)
(***************************************************************************)
DigitChars == {"0", "1", "2", "3", "4", "5", "6", "7", "8", "9"}

DigitVal(c) ==
    CASE c = "0" -> 0 [] c = "1" -> 1 [] c = "2" -> 2 [] c = "3" -> 3
      [] c = "4" -> 4 [] c = "5" -> 5 [] c = "6" -> 6 [] c = "7" -> 7
      [] c = "8" -> 8 [] c = "9" -> 9

IsDigit(c) == c \in DigitChars

\* str.lower() on the model's alphabet
LowerChar(c) == IF c = "K" THEN "k" ELSE c

Lower(s) == [i \in 1..Len(s) |-> LowerChar(s[i])]

\* str.strip(): leading and trailing blanks removed
RECURSIVE LStrip(_)
LStrip(s) == IF s # <<>> /\ Head(s) = " " THEN LStrip(Tail(s)) ELSE s

RECURSIVE RStrip(_)
RStrip(s) ==
    IF s # <<>> /\ s[Len(s)] = " " THEN RStrip(SubSeq(s, 1, Len(s) - 1)) ELSE s

Strip(s) == RStrip(LStrip(s))

\* str.replace(c, "")
RemoveChar(s, c) == SelectSeq(s, LAMBDA x : x # c)

\* "k" in text
Contains(s, c) == \E i \in 1..Len(s) : s[i] = c

\* the decimal value of a run of digits ("" counts 0)
RECURSIVE DigitsValue(_)
DigitsValue(s) ==
    IF s = <<>> THEN 0
    ELSE 10 * DigitsValue(SubSeq(s, 1, Len(s) - 1)) + DigitVal(s[Len(s)])

AllDigits(s) == \A i \in 1..Len(s) : IsDigit(s[i])

RECURSIVE Pow10(_)
Pow10(n) == IF n = 0 THEN 1 ELSE 10 * Pow10(n - 1)

\* the length of the longest run of digits of s that starts at position p
RECURSIVE DigitRun(_, _)
DigitRun(s, p) ==
    IF p <= Len(s) /\ IsDigit(s[p]) THEN 1 + DigitRun(s, p + 1) ELSE 0

\* the first position of s at or after p whose character is in set, 0 if none
RECURSIVE FirstIn(_, _, _)
FirstIn(s, set, p) ==
    IF p > Len(s) THEN 0
    ELSE IF s[p] \in set THEN p
    ELSE FirstIn(s, set, p + 1)

\* the outcome of a parse that raised (ValueError); every parsed value is >= 0
Raised == -1

(***************************************************************************)
(* parse_points, parse_money, calculate_cpp.                               *)
(***************************************************************************)
\* float(s) * 1000 truncated by int(), for s over the model's alphabet:
\* digits with at most one ".", at least one digit, blanks around allowed.
\* Anything else makes float() raise ValueError.
FloatTimes1000(s) ==
    LET t == Strip(s)
        dot == FirstIn(t, {"."}, 1)
        ip == IF dot = 0 THEN t ELSE SubSeq(t, 1, dot - 1)
        fp == IF dot = 0 THEN <<>> ELSE SubSeq(t, dot + 1, Len(t))
    IN  IF AllDigits(ip) /\ AllDigits(fp) /\ Len(ip) + Len(fp) > 0
        THEN DigitsValue(ip) * 1000 + (DigitsValue(fp) * 1000) \div Pow10(Len(fp))
        ELSE Raised

\* the end of the match of (?:,\d{3})* that starts after position e
RECURSIVE GroupsEnd(_, _)
GroupsEnd(s, e) ==
    IF e + 1 <= Len(s) /\ s[e + 1] = "," /\ DigitRun(s, e + 2) >= 3
    THEN GroupsEnd(s, e + 4)
    ELSE e

Min(a, b) == IF a < b THEN a ELSE b

\* re.search(r"(\d{1,3}(?:,\d{3})*)", s): the matched text, <<>> if no match
PointsToken(s) ==
    LET p == FirstIn(s, DigitChars, 1)
    IN  IF p = 0 THEN <<>>
        ELSE SubSeq(s, p, GroupsEnd(s, p + Min(3, DigitRun(s, p)) - 1))

parse_points(text) ==
    IF text = <<>> THEN 0
    ELSE LET t == Lower(Strip(text))
         IN  IF Contains(t, "k")
             THEN FloatTimes1000(RemoveChar(RemoveChar(t, "k"), ","))
             ELSE LET tok == PointsToken(t)
                  IN  IF tok = <<>> THEN 0
                      ELSE DigitsValue(RemoveChar(tok, ","))

\* the length of the longest run of [\d,] of s that starts at position p
RECURSIVE MoneyRun(_, _)
MoneyRun(s, p) ==
    IF p <= Len(s) /\ (IsDigit(s[p]) \/ s[p] = ",")
    THEN 1 + MoneyRun(s, p + 1) ELSE 0

\* re.search(r"\$?\s*([\d,]+(?:\.\d{1,2})?)", text), then float() of the
\* group without its commas, in cents.  The group starts at the first
\* character of [\d,] of the text; float("") raises.
parse_money(text) ==
    LET p == FirstIn(text, DigitChars \cup {","}, 1)
    IN  IF text = <<>> \/ p = 0 THEN 0
        ELSE LET e == p + MoneyRun(text, p) - 1
                 ip == RemoveChar(SubSeq(text, p, e), ",")
                 nf == IF e + 1 <= Len(text) /\ text[e + 1] = "."
                       THEN Min(2, DigitRun(text, e + 2)) ELSE 0
                 fp == SubSeq(text, e + 2, e + 1 + nf)
             IN  IF Len(ip) + Len(fp) = 0 THEN Raised
                 ELSE DigitsValue(ip) * 100
                      + (IF nf = 1 THEN 10 ELSE 1) * DigitsValue(fp)

\* round(n / d) to the nearest integer, ties to the even one (d > 0)
RoundDiv(n, d) ==
    LET q == n \div d
        r == n % d
    IN  IF 2 * r < d THEN q
        ELSE IF 2 * r > d THEN q + 1
        ELSE IF q % 2 = 0 THEN q ELSE q + 1

\* round(((cash - taxes) / points) * 100, 2), in hundredths of a cent
calculate_cpp(cash, points, taxes) ==
    IF points > 0 THEN RoundDiv((cash - taxes) * 100, points) ELSE 0

(***************************************************************************)
(* Fare nodes, extraction (scrape_choose_flights) and deduplication (main).*)
(* A node is what the selectors of AASelectors find in one button: whether *)
(* it has a span.weekly-date, its points text, its cash text, its          *)
(* departure-time text ("" when the element is absent).  arrival_time and  *)
(* the flight-number element are copied through unread and left out; the   *)
(* position i of the node stands for raw_text and the fallback AA_{i}.     *)
(***************************************************************************)
NodeFare ==
    [date |-> TRUE, points |-> <<"4", "0", "k">>,
     cash |-> <<"$", "2", "0", "0">>, dep |-> "08:00"]

NodeZero ==
    [date |-> TRUE, points |-> <<"0">>, cash |-> <<>>, dep |-> "09:00"]

NodeNoDate ==
    [date |-> FALSE, points |-> <<"4", "0", "k">>,
     cash |-> <<"$", "2", "0", "0">>, dep |-> "08:00"]

NodeBadPoints ==
    [date |-> TRUE, points |-> <<"k">>,
     cash |-> <<"$", "2", "0", "0">>, dep |-> "08:00"]

NodeCashOnly ==
    [date |-> TRUE, points |-> <<>>,
     cash |-> <<"$", "2", "0", "0">>, dep |-> "08:00"]

NodeLater ==
    [date |-> TRUE, points |-> <<"4", "0", "k">>,
     cash |-> <<"$", "2", "0", "0">>, dep |-> "09:00"]

Nodes ==
    {NodeFare, NodeZero, NodeNoDate, NodeBadPoints, NodeCashOnly, NodeLater}

\* the documents a fetch can return: at most MaxNodes fare nodes
NodeSeqs == UNION {[1..n -> Nodes] : n \in 0..MaxNodes}

\* ExtractNode without the test "if cash or points"
ExtractNodeKeepZero(flights, node, i) ==
    IF ~node.date THEN flights
    ELSE LET points == parse_points(node.points)
             cash == parse_money(node.cash)
         IN  IF points = Raised \/ cash = Raised THEN flights
             ELSE Append(flights,
                         [flight_number |-> <<"AA", i>>,
                          departure_time |-> node.dep,
                          points_required |-> points,
                          cash_price_usd |-> cash,
                          taxes_fees_usd |-> DefaultTaxesCents,
                          cpp |-> calculate_cpp(cash, points, DefaultTaxesCents),
                          node |-> i])

\* one pass of the loop body over button i: the list with the record
\* appended, or the list as it was (no date, a parse raised, or zero-zero)
ExtractNode(flights, node, i) ==
    IF ~node.date THEN flights
    ELSE LET points == parse_points(node.points)
             cash == parse_money(node.cash)
         IN  IF points = Raised \/ cash = Raised THEN flights
             ELSE IF cash # 0 \/ points # 0
             THEN Append(flights,
                         [flight_number |-> <<"AA", i>>,
                          departure_time |-> node.dep,
                          points_required |-> points,
                          cash_price_usd |-> cash,
                          taxes_fees_usd |-> DefaultTaxesCents,
                          cpp |-> calculate_cpp(cash, points, DefaultTaxesCents),
                          node |-> i])
             ELSE flights

\* whether reading the fields of a node raises inside the try block
NodeRaises(node) ==
    /\ node.date
    /\ (parse_points(node.points) = Raised \/ parse_money(node.cash) = Raised)

\* ExtractUpTo with the try block around the loop instead of inside it: the
\* first node that raises ends the loop
RECURSIVE ExtractStopAtError(_, _)
ExtractStopAtError(nodes, n) ==
    IF n = 0 THEN <<>>
    ELSE IF \E m \in 1..n : NodeRaises(nodes[m])
    THEN ExtractStopAtError(nodes, n - 1)
    ELSE ExtractNode(ExtractStopAtError(nodes, n - 1), nodes[n], n)

\* the for loop over enumerate(flight_buttons, 1), nodes 1..n done
RECURSIVE ExtractUpTo(_, _)
ExtractUpTo(nodes, n) ==
    IF n = 0 THEN <<>>
    ELSE ExtractNode(ExtractUpTo(nodes, n - 1), nodes[n], n)

Extract(nodes) == ExtractUpTo(nodes, Len(nodes))

FlightKey(f) == <<f.points_required, f.cash_price_usd, f.departure_time>>

\* the loop of main over flights with the set seen, items 1..n done
RECURSIVE DedupeUpTo(_, _)
DedupeUpTo(flights, n) ==
    IF n = 0 THEN <<>>
    ELSE LET done == DedupeUpTo(flights, n - 1)
             seen == {FlightKey(done[j]) : j \in 1..Len(done)}
         IN  IF FlightKey(flights[n]) \notin seen
             THEN Append(done, flights[n])
             ELSE done

\* Dedupe without the test "key not in seen"
KeepAll(flights) == flights

\* Dedupe that keeps the last record of each key instead of the first
DedupeKeepLast(flights) ==
    SelectSeq(flights,
              LAMBDA f : f = flights[CHOOSE i \in 1..Len(flights) :
                                        /\ FlightKey(flights[i]) = FlightKey(f)
                                        /\ \A j \in (i + 1)..Len(flights) :
                                              FlightKey(flights[j]) # FlightKey(f)])

Dedupe(flights) == DedupeUpTo(flights, Len(flights))

(***************************************************************************)
(* The state of one run of main().                                         *)
(***************************************************************************)
VARIABLES
    max_retries,        \* ScraperConfig.max_retries
    requests_per_hour,  \* ScraperConfig.requests_per_hour
    pc,                 \* the place of main() the run is at
    attempt,            \* the loop variable of main()
    retry_count,        \* create_driver's parameter, in the running call
    caller,             \* who called create_driver: "init" or "retry"
    browser,            \* the BrowserManager the name browser is bound to
    flights,            \* main's flights
    page,               \* the document of the last fetch (scrape's locals)
    now,                \* time.time()
    engines,            \* per uc.Chrome instance created: the number of quit() calls on it
    dirs,               \* per mkdtemp directory created: whether it is on disk
    sessions,           \* the number of BrowserManager objects constructed
    admits,             \* per rate_limit call that returned: its time
    navs,               \* per driver.get call: the session and engine used
    scrapes,            \* the number of scrape_choose_flights calls
    out_json,           \* the result documents written to config.out_json
    succeeded,          \* whether the loop was left by break
    outcome,            \* how the run ended ("" while it runs)
    backoffs,           \* per time.sleep(retry_delay) of main: attempt, delay
    debug_html,         \* the document written to config.debug_html
    debug_screenshot    \* whether config.debug_screenshot was written

vars ==
    <<max_retries, requests_per_hour, pc, attempt, retry_count, caller,
      browser, flights, page, now, engines, dirs, sessions,
      admits, navs, scrapes, out_json, succeeded, outcome, backoffs,
      debug_html, debug_screenshot>>

config == <<max_retries, requests_per_hour>>

\* the debug files of ScraperConfig
files == <<debug_html, debug_screenshot>>

\* the wall-clock seconds one navigation and page wait can take
Durations == {1, HourSeconds}

\* a fetched page: whether the fare buttons appeared within the wait, whether
\* its text holds a block marker ("access denied", "blocked"), its fare nodes
NoPage == [fetched |-> FALSE, buttons |-> FALSE, blocked |-> FALSE, nodes |-> <<>>]

TimeoutPage == [fetched |-> TRUE, buttons |-> FALSE, blocked |-> FALSE, nodes |-> <<>>]

\* every page of at most MaxNodes fare nodes
Pages ==
    {TimeoutPage} \cup
    [fetched : {TRUE}, buttons : {TRUE}, blocked : BOOLEAN, nodes : NodeSeqs]

OkPage(nodes) ==
    [fetched |-> TRUE, buttons |-> TRUE, blocked |-> FALSE, nodes |-> nodes]

BlockedPage(nodes) ==
    [fetched |-> TRUE, buttons |-> TRUE, blocked |-> TRUE, nodes |-> nodes]

\* the pages the runs with retries are explored with: no fare buttons, a
\* page with a duplicate and a zero-zero node, two pages with a block
\* marker, a page none of whose nodes gives a record, a page of two fares
SamplePages ==
    {TimeoutPage,
     OkPage(<<NodeFare, NodeZero, NodeFare>>),
     BlockedPage(<<NodeFare, NodeZero, NodeFare>>),
     BlockedPage(<<NodeFare>>),
     OkPage(<<NodeNoDate, NodeBadPoints>>),
     OkPage(<<NodeCashOnly, NodeFare>>)}

\* BrowserManager.__init__ ; driver and temp_dir 0 stand for None
BrowserManager(id, time) ==
    [id |-> id, driver |-> 0, temp_dir |-> 0, use_proxy |-> TRUE,
     request_count |-> 0, last_request_time |-> time]

\* main up to its first call of create_driver
Begin ==
    /\ pc = "create"
    /\ attempt = 0
    /\ retry_count = 0
    /\ caller = "init"
    /\ browser = BrowserManager(1, 0)
    /\ flights = <<>>
    /\ page = NoPage
    /\ now = 0
    /\ engines = <<>>
    /\ dirs = <<>>
    /\ sessions = 1
    /\ admits = <<>>
    /\ navs = <<>>
    /\ scrapes = 0
    /\ out_json = <<>>
    /\ succeeded = FALSE
    /\ outcome = ""
    /\ backoffs = <<>>
    /\ debug_html = NoPage
    /\ debug_screenshot = FALSE

Init ==
    /\ max_retries \in 1..MaxRetries
    /\ requests_per_hour \in 1..MaxRate
    /\ Begin

(***************************************************************************)
(* BrowserManager.quit: driver.quit() when a driver is set (an error of    *)
(* the call is logged and swallowed, the call counts), then the temporary  *)
(* directory is removed when it is set and exists.  shutil.rmtree is taken *)
(* to remove the directory; quit never resets driver or temp_dir.          *)
(***************************************************************************)
\* QuitEngines of a quit() that leaves the engine running
QuitEnginesNever(b, e) == e

QuitEngines(b, e) ==
    IF b.driver # 0 THEN [e EXCEPT ![b.driver] = @ + 1] ELSE e

\* QuitDirs that removes the directory only of a session that uses the proxy
QuitDirsOnlyWithProxy(b, d) ==
    IF b.use_proxy /\ b.temp_dir # 0 /\ d[b.temp_dir]
    THEN [d EXCEPT ![b.temp_dir] = FALSE] ELSE d

QuitDirs(b, d) ==
    IF b.temp_dir # 0 /\ d[b.temp_dir] THEN [d EXCEPT ![b.temp_dir] = FALSE] ELSE d

\* the "return" of the try block of main and every exception caught by the
\* outer handlers: control goes to the finally clause
Leave(how) ==
    /\ pc' = "finally"
    /\ outcome' = how

\* NextIteration of a loop whose variable does not advance
NextIterationSameAttempt ==
    /\ attempt' = attempt
    /\ pc' = "rate_limit"

\* "continue", and the end of an iteration: the next iteration if there is
\* one, the else clause of the for loop if not
NextIteration ==
    /\ attempt' = attempt + 1
    /\ pc' = IF attempt + 1 < max_retries THEN "rate_limit" ELSE "loop_else"

RECURSIVE Pow2(_)
Pow2(n) == IF n = 0 THEN 1 ELSE 2 * Pow2(n - 1)

\* retry_delay = 2 ** attempt * 5
RetryDelay(a) == Pow2(a) * BackoffBase

\* a time.sleep(retry_delay) of the iteration of attempt a
Backoff(a) == [attempt |-> a, delay |-> RetryDelay(a)]

(***************************************************************************)
(* BrowserManager.create_driver.                                           *)
(***************************************************************************)
\* what main does with the value create_driver returned
Return(ok) ==
    IF caller = "init"
    THEN /\ IF ok THEN pc' = "rate_limit" /\ outcome' = outcome
               ELSE Leave("init_failed")
         /\ attempt' = attempt
    ELSE /\ IF ok THEN pc' = "retry_sleep" /\ attempt' = attempt
               ELSE NextIteration
         /\ outcome' = outcome

\* lines 198-228: the proxy is dropped from the third call on; with a proxy
\* a temporary directory is made and the extension written into it, and a
\* failed write drops the proxy
CreateDriverSetup ==
    /\ pc = "create"
    /\ IF retry_count < ProxyRetryLimit /\ browser.use_proxy
       THEN \E ext_ok \in BOOLEAN :
                /\ dirs' = Append(dirs, TRUE)
                /\ browser' = [browser EXCEPT !.temp_dir = Len(dirs) + 1,
                                               !.use_proxy = ext_ok]
       ELSE /\ dirs' = dirs
            /\ browser' = [browser EXCEPT !.use_proxy = FALSE]
    /\ pc' = "start"
    /\ UNCHANGED <<config, files, backoffs, attempt, retry_count, caller,
                   flights, page, now, engines, sessions, admits, navs,
                   scrapes, out_json, succeeded, outcome>>

\* RetriesDriver that does not look at use_proxy
RetriesDriverWithoutProxy(b, rc) == rc < ProxyRetryLimit

\* whether the except clause of create_driver calls itself again
RetriesDriver(b, rc) == b.use_proxy /\ rc < ProxyRetryLimit

\* lines 236-254: uc.Chrome() raises, or it returns and a later statement
\* of the try block raises (self.driver is then set), or all of it works
CreateDriverStart ==
    /\ pc = "start"
    /\ \E res \in {"ok", "chrome_raises", "setup_raises"} :
        LET made == res # "chrome_raises"
            e1 == IF made THEN Append(engines, 0) ELSE engines
            b1 == IF made THEN [browser EXCEPT !.driver = Len(engines) + 1]
                  ELSE browser
        IN  /\ browser' = b1
            /\ IF res = "ok"
               THEN /\ engines' = e1
                    /\ Return(TRUE)
                    /\ UNCHANGED <<dirs, retry_count>>
               ELSE IF RetriesDriver(b1, retry_count)
               THEN /\ engines' = QuitEngines(b1, e1)
                    /\ dirs' = QuitDirs(b1, dirs)
                    /\ retry_count' = retry_count + 1
                    /\ pc' = "create"
                    /\ UNCHANGED <<attempt, outcome>>
               ELSE /\ engines' = e1
                    /\ Return(FALSE)
                    /\ UNCHANGED <<dirs, retry_count>>
    /\ UNCHANGED <<config, files, backoffs, caller, flights, page, now,
                   sessions, admits, navs, scrapes, out_json, succeeded>>

(***************************************************************************)
(* scrape_choose_flights.                                                  *)
(***************************************************************************)
\* BrowserManager.rate_limit, the first statement of scrape_choose_flights:
\* the values it computes from the state it is called in.
RateCount == browser.request_count + 1

RateElapsed == now - browser.last_request_time

\* line 282-283: the cap is exceeded within the hour
RateSleeps == RateCount > requests_per_hour /\ RateElapsed < HourSeconds

\* line 284: requests_per_hour - request_count + 1
RateDivisor == requests_per_hour - RateCount + 1

RateSleepTime ==
    IF RateSleeps /\ RateDivisor # 0
    THEN (HourSeconds - RateElapsed) \div RateDivisor ELSE 0

\* The division raises ZeroDivisionError on a divisor of 0, and
\* time.sleep raises ValueError on a negative duration; neither is caught
\* before the outer handler of main.
RateLimitRaises == RateSleeps /\ (RateDivisor = 0 \/ RateSleepTime < 0)

RateLimit ==
    /\ pc = "rate_limit"
    /\ scrapes' = scrapes + 1
    /\ IF RateLimitRaises
       THEN /\ browser' = [browser EXCEPT !.request_count = RateCount]
            /\ Leave("fatal")
            /\ UNCHANGED <<now, admits>>
       ELSE /\ browser' =
                 [browser EXCEPT
                    !.request_count =
                        IF RateCount > requests_per_hour THEN 1 ELSE RateCount,
                    !.last_request_time = now]
            /\ now' = now + RateSleepTime
            /\ admits' = Append(admits, now + RateSleepTime)
            /\ pc' = "navigate"
            /\ outcome' = outcome
    /\ UNCHANGED <<config, files, backoffs, attempt, retry_count, caller,
                   flights, page, engines, dirs, sessions, navs, out_json,
                   succeeded>>

\* ScrapeResult without the block check of lines 331-335
ScrapeResultUnclassified(p) ==
    IF ~p.buttons THEN <<>> ELSE Extract(p.nodes)

\* lines 315-385: what scrape_choose_flights returns for a page
ScrapeResult(p) ==
    IF ~p.buttons THEN <<>>
    ELSE IF p.blocked THEN <<>>
    ELSE Extract(p.nodes)

\* lines 331-338: the document is written to config.debug_html after the
\* wait and the block check let it through
WritesHtml(p) == p.buttons /\ ~p.blocked

\* lines 312-385: driver.get on browser.driver (None has no get: an
\* AttributeError, which only the outer handler catches), the wait, the
\* block check and the extraction.  A driver call may raise
\* TimeoutException or WebDriverException.  On an engine that was quit the
\* call can only raise: a WebDriverException, or the connection error of
\* the HTTP client, which only the outer handler catches.  shot is whether
\* save_screenshot works: after a timeout its error is swallowed (lines
\* 322-326), at lines 334 and 340 it is a WebDriverException that leaves
\* scrape_choose_flights.
Navigate(pages, shots) ==
    /\ pc = "navigate"
    /\ IF browser.driver = 0
       THEN /\ Leave("fatal")
            /\ UNCHANGED <<now, navs, page, flights, files>>
       ELSE /\ navs' = Append(navs, [session |-> browser.id,
                                      engine |-> browser.driver])
            /\ \E d \in Durations :
                /\ now' = now + d
                /\ \/ /\ pc' = "except"
                      /\ UNCHANGED <<page, flights, outcome, files>>
                   \/ /\ engines[browser.driver] > 0
                      /\ Leave("fatal")
                      /\ UNCHANGED <<page, flights, files>>
                   \/ /\ engines[browser.driver] = 0
                      /\ \E p \in pages, shot \in shots :
                            /\ page' = p
                            /\ debug_html' = IF WritesHtml(p) THEN p
                                             ELSE debug_html
                            /\ debug_screenshot' = (debug_screenshot \/ shot)
                            /\ IF shot \/ ~p.buttons
                               THEN /\ flights' = ScrapeResult(p)
                                    /\ pc' = "check"
                               ELSE /\ flights' = flights
                                    /\ pc' = "except"
                      /\ outcome' = outcome
    /\ UNCHANGED <<config, attempt, retry_count, caller, browser, engines,
                   dirs, sessions, admits, scrapes, out_json, succeeded,
                   backoffs>>

(***************************************************************************)
(* main.                                                                   *)
(***************************************************************************)
\* Breaks of a loop that has no break
BreaksNever(f) == FALSE

\* line 406: if flights
Breaks(f) == f # <<>>

\* lines 406-410: break on a non-empty list; otherwise the retry branch on
\* every attempt but the last, where the iteration just ends
Check ==
    /\ pc = "check"
    /\ IF Breaks(flights)
       THEN /\ succeeded' = TRUE
            /\ pc' = "save"
            /\ UNCHANGED <<attempt, page>>
       ELSE /\ succeeded' = succeeded
            /\ page' = NoPage
            /\ IF attempt < max_retries - 1
               THEN pc' = "retry_quit" /\ attempt' = attempt
               ELSE NextIteration
    /\ UNCHANGED <<config, files, backoffs, retry_count, caller, browser,
                   flights, now, engines, dirs, sessions, admits, navs,
                   scrapes, out_json, outcome>>

\* line 411: browser.quit()
RetryQuit ==
    /\ pc = "retry_quit"
    /\ engines' = QuitEngines(browser, engines)
    /\ dirs' = QuitDirs(browser, dirs)
    /\ pc' = "retry_new"
    /\ UNCHANGED <<config, files, backoffs, attempt, retry_count, caller,
                   browser, flights, page, now, sessions, admits, navs,
                   scrapes, out_json, succeeded, outcome>>

\* lines 412-413: browser = BrowserManager(config, proxy), then the call
\* browser.create_driver(attempt)
RetryNew ==
    /\ pc = "retry_new"
    /\ sessions' = sessions + 1
    /\ browser' = BrowserManager(sessions + 1, now)
    /\ retry_count' = attempt
    /\ caller' = "retry"
    /\ pc' = "create"
    /\ UNCHANGED <<config, files, backoffs, attempt, flights, page, now,
                   engines, dirs, admits, navs, scrapes, out_json, succeeded,
                   outcome>>

\* line 416: time.sleep(retry_delay), the end of the iteration
RetrySleep ==
    /\ pc = "retry_sleep"
    /\ now' = now + RetryDelay(attempt)
    /\ backoffs' = Append(backoffs, Backoff(attempt))
    /\ NextIteration
    /\ UNCHANGED <<config, files, retry_count, caller, browser, flights,
                   page, engines, dirs, sessions, admits, navs, scrapes,
                   out_json, succeeded, outcome>>

\* lines 417-422: TimeoutException or WebDriverException out of
\* scrape_choose_flights: a sleep on every attempt but the last, continue
Except ==
    /\ pc = "except"
    /\ IF attempt < max_retries - 1
       THEN /\ now' = now + RetryDelay(attempt)
            /\ backoffs' = Append(backoffs, Backoff(attempt))
       ELSE UNCHANGED <<now, backoffs>>
    /\ page' = NoPage
    /\ NextIteration
    /\ UNCHANGED <<config, files, retry_count, caller, browser, flights,
                   engines, dirs, sessions, admits, navs, scrapes, out_json,
                   succeeded, outcome>>

\* lines 423-426: the else clause of the for loop
LoopElse ==
    /\ pc = "loop_else"
    /\ IF flights = <<>>
       THEN Leave("exhausted")
       ELSE pc' = "save" /\ outcome' = outcome
    /\ UNCHANGED <<config, files, backoffs, attempt, retry_count, caller,
                   browser, flights, page, now, engines, dirs, sessions,
                   admits, navs, scrapes, out_json, succeeded>>

\* lines 438-453: the result document, of which flights and total_results
\* are modelled
Result(unique_flights) ==
    [flights |-> unique_flights, total_results |-> Len(unique_flights)]

\* lines 428-455: deduplicate and write the result; an empty list is not
\* written
Save ==
    /\ pc = "save"
    /\ out_json' = IF flights # <<>>
                   THEN Append(out_json, Result(Dedupe(flights)))
                   ELSE out_json
    /\ pc' = "summary"
    /\ UNCHANGED <<config, files, backoffs, attempt, retry_count, caller,
                   browser, flights, page, now, engines, dirs, sessions,
                   admits, navs, scrapes, succeeded, outcome>>

\* lines 457-478: the console summary, then the end of the try block
Summary ==
    /\ pc = "summary"
    /\ Leave("success")
    /\ UNCHANGED <<config, files, backoffs, attempt, retry_count, caller,
                   browser, flights, page, now, engines, dirs, sessions,
                   admits, navs, scrapes, out_json, succeeded>>

\* the places of the try block of main
TryPlaces ==
    {"create", "start", "rate_limit", "navigate", "check", "retry_quit",
     "retry_new", "retry_sleep", "except", "loop_else", "save", "summary"}

\* lines 480-481: KeyboardInterrupt, which can arrive between any two steps
Interrupt ==
    /\ pc \in TryPlaces
    /\ Leave("interrupted")
    /\ UNCHANGED <<config, files, backoffs, attempt, retry_count, caller,
                   browser, flights, page, now, engines, dirs, sessions,
                   admits, navs, scrapes, out_json, succeeded>>

\* lines 484-485: finally: browser.quit()
Finally ==
    /\ pc = "finally"
    /\ engines' = QuitEngines(browser, engines)
    /\ dirs' = QuitDirs(browser, dirs)
    /\ pc' = "done"
    /\ UNCHANGED <<config, files, backoffs, attempt, retry_count, caller,
                   browser, flights, page, now, sessions, admits, navs,
                   scrapes, out_json, succeeded, outcome>>

Next ==
    \/ CreateDriverSetup
    \/ CreateDriverStart
    \/ RateLimit
    \/ Navigate(SamplePages, {TRUE})
    \/ Check
    \/ RetryQuit
    \/ RetryNew
    \/ RetrySleep
    \/ Except
    \/ LoopElse
    \/ Save
    \/ Summary
    \/ Interrupt
    \/ Finally

Spec == Init /\ [][Next]_vars

(***************************************************************************)
(* The runs of a single attempt, over every page of at most MaxNodes fare  *)
(* nodes: the specification the claims about extraction and deduplication  *)
(* are checked under.                                                      *)
(***************************************************************************)
InitExtract ==
    /\ Init
    /\ max_retries = 1
    /\ requests_per_hour = 1

NextExtract ==
    \/ CreateDriverSetup
    \/ CreateDriverStart
    \/ RateLimit
    \/ Navigate(Pages, BOOLEAN)
    \/ Check
    \/ Except
    \/ LoopElse
    \/ Save
    \/ Summary
    \/ Interrupt
    \/ Finally

ExtractSpec == InitExtract /\ [][NextExtract]_vars

(***************************************************************************)
(* The runs under the configuration ScraperConfig has by default, five     *)
(* attempts at eight requests per hour, over a page that times out and a   *)
(* page of one fare: the specification for the claims about the later      *)
(* retries.                                                                *)
(***************************************************************************)
DefaultPages == {TimeoutPage, OkPage(<<NodeFare>>)}

InitDefault ==
    /\ max_retries = DefaultMaxRetries
    /\ requests_per_hour = DefaultRequestsPerHour
    /\ Begin

NextDefault ==
    \/ CreateDriverSetup
    \/ CreateDriverStart
    \/ RateLimit
    \/ Navigate(DefaultPages, {TRUE})
    \/ Check
    \/ RetryQuit
    \/ RetryNew
    \/ RetrySleep
    \/ Except
    \/ LoopElse
    \/ Save
    \/ Summary
    \/ Interrupt
    \/ Finally

DefaultSpec == InitDefault /\ [][NextDefault]_vars

(***************************************************************************)
(* The runs in which every external call returns or raises, so that a run  *)
(* that can take a step takes one; every max_retries and cap of Init, over *)
(* a page that gives no record and a page that gives one.                  *)
(***************************************************************************)
FairSpec == Init /\ [][NextDefault]_vars /\ WF_vars(NextDefault)

(***************************************************************************)
(* Claims.                                                                 *)
(***************************************************************************)
Done == pc = "done"

\* C1: a run that ends otherwise than by success, by an interruption or by
\* the failure of the first session has made exactly max_retries fetch
\* attempts and reports exhaustion: no outcome of one attempt ends it sooner.
C1_ExhaustedAfterExactlyMaxRetries ==
    (Done /\ outcome \notin {"success", "interrupted", "init_failed"})
        => (outcome = "exhausted" /\ scrapes = max_retries)

\* C2: the attempt whose page is OK and whose extraction is not empty ends
\* the loop: from then on there is no fetch, no rate-limit admission, no
\* sleep and no new session, and the result written is the deduplication of
\* the records of that attempt's page.
C2_SuccessAtFirstGoodAttempt ==
    /\ [](LET records == Extract(page.nodes)
           IN  /\ succeeded => /\ page.buttons /\ ~page.blocked
                               /\ flights # <<>>
                               /\ flights = records
               /\ out_json # <<>> =>
                     out_json = <<Result(Dedupe(records))>>)
    /\ [][(pc = "check" /\ page.buttons /\ ~page.blocked
              /\ Extract(page.nodes) # <<>>)
            => (succeeded' \/ pc' = "finally")]_vars
    /\ [][succeeded => /\ scrapes' = scrapes /\ navs' = navs
                       /\ admits' = admits /\ now' = now
                       /\ sessions' = sessions /\ browser' = browser
                       /\ flights' = flights]_vars

C2_Witness ==
    /\ Done /\ outcome = "success"
    /\ scrapes = 2 /\ sessions = 2
    /\ out_json # <<>>

\* C3: no more than requests_per_hour rate_limit calls return within any
\* 3600 seconds, the admissions of all sessions of the run counted.
C3_RollingWindowCap ==
    \A i \in 1..Len(admits) :
        Cardinality({j \in 1..Len(admits) :
                        /\ admits[j] <= admits[i]
                        /\ admits[j] > admits[i] - HourSeconds})
            <= requests_per_hour

\* C4: when the run has ended, quit() was invoked exactly once on every
\* engine instance created.
C4_EveryEngineQuitOnce ==
    Done => \A e \in 1..Len(engines) : engines[e] = 1

C6_FreshSessionPerFetch ==
    \A i, j \in 1..Len(navs) :
        i < j => navs[i].session # navs[j].session

\* C7: a page with a block marker gives no records whatever its nodes, the
\* run goes on to the retry branch or to the end of the loop, and nothing of
\* such a page is written.
C7_BlockedPageGivesNoRecords ==
    /\ [](page.blocked => flights = <<>> /\ ~succeeded /\ out_json = <<>>)
    /\ [][(pc = "check" /\ page.blocked)
            => pc' \in {"retry_quit", "loop_else", "finally"}]_vars

C7_Witness ==
    /\ pc = "check" /\ attempt >= 1
    /\ page.blocked /\ Len(Extract(page.nodes)) >= 2
    /\ flights = <<>>

NoDuplicateKeys(fs) ==
    \A i, j \in 1..Len(fs) : i # j => FlightKey(fs[i]) # FlightKey(fs[j])

\* C8: the result is written at most once and only after the loop was left
\* by break; a run that ends exhausted, without a first session or by an
\* unrecovered error has written nothing; the written flights are not
\* empty, hold no two records of one key, and total_results is their number.
C8_ResultWrittenOnlyOnSuccess ==
    /\ Len(out_json) <= 1
    /\ outcome \in {"exhausted", "init_failed", "fatal"} => out_json = <<>>
    /\ ~succeeded => out_json = <<>>
    /\ out_json # <<>> =>
          /\ out_json[1].flights # <<>>
          /\ NoDuplicateKeys(out_json[1].flights)
          /\ out_json[1].total_results = Len(out_json[1].flights)

C8_Witness ==
    /\ Done /\ outcome = "success"
    /\ Len(out_json) = 1
    /\ Len(flights) > out_json[1].total_results

\* the positions of X that hold the first record of their key
FirstPositions(X) ==
    {i \in 1..Len(X) : \A j \in 1..(i - 1) : FlightKey(X[j]) # FlightKey(X[i])}

\* whether D is the subsequence of X at the positions S, in their order
IsSubsequenceAt(D, X, S) ==
    /\ Len(D) = Cardinality(S)
    /\ \A i \in S : D[Cardinality({j \in S : j <= i})] = X[i]

\* C9: the written flights are the first record of each key of the
\* extracted flights, in the order of the extracted flights, and
\* deduplicating them again changes nothing.
C9_DedupeFirstSeenIdempotent ==
    out_json # <<>> =>
        /\ IsSubsequenceAt(out_json[1].flights, flights, FirstPositions(flights))
        /\ Dedupe(out_json[1].flights) = out_json[1].flights

\* three records of two keys, the duplicate after a record of the other key
C9_Witness ==
    /\ out_json # <<>>
    /\ Len(flights) = 3 /\ Len(out_json[1].flights) = 2
    /\ FlightKey(flights[1]) = FlightKey(flights[3])

\* C10: the list scrape_choose_flights returns holds no record with cash 0
\* and points 0 and no record of a node without a date element.
C10_NoZeroZeroNoDateless ==
    \A i \in 1..Len(flights) :
        /\ ~(flights[i].cash_price_usd = 0 /\ flights[i].points_required = 0)
        /\ page.nodes[flights[i].node].date

\* a page with a dateless node, a zero-zero node and a fare, extracted
C10_Witness ==
    /\ pc = "check"
    /\ page.nodes = <<NodeNoDate, NodeZero, NodeFare>>
    /\ ~page.blocked
    /\ Len(flights) = 1

\* the number a text stands for: 0 when it cannot be parsed
ValueOf(v) == IF v = Raised THEN 0 ELSE v

NodeKey(n) ==
    <<ValueOf(parse_points(n.points)), ValueOf(parse_money(n.cash)), n.dep>>

\* a node with a date and cash > 0 or points > 0
Retained(n) == n.date /\ (NodeKey(n)[1] > 0 \/ NodeKey(n)[2] > 0)

\* the keys of the retained nodes 1..n, each once, in first-seen order
RECURSIVE ExpectedKeys(_, _)
ExpectedKeys(nodes, n) ==
    IF n = 0 THEN <<>>
    ELSE LET done == ExpectedKeys(nodes, n - 1)
         IN  IF Retained(nodes[n])
                /\ \A k \in 1..Len(done) : done[k] # NodeKey(nodes[n])
             THEN Append(done, NodeKey(nodes[n]))
             ELSE done

KeysOf(fs) == [i \in 1..Len(fs) |-> FlightKey(fs[i])]

\* C11: for an OK page the deduplicated flight list is, key by key, the
\* first-seen-order deduplication of the nodes that have a date and cash > 0
\* or points > 0; the nodes (40000, 200, 08:00), (0, 0, 09:00),
\* (40000, 200, 08:00) give one record, of value ratio 0.49.
C11_FinalListIsDedupedRetainedNodes ==
    (pc = "check" /\ page.buttons /\ ~page.blocked) =>
        /\ KeysOf(Dedupe(flights)) = ExpectedKeys(page.nodes, Len(page.nodes))
        /\ page.nodes = <<NodeFare, NodeZero, NodeFare>> =>
              /\ Len(Dedupe(flights)) = 1
              /\ Dedupe(flights)[1].cpp = 49

\* the positions of the nodes that give a record when read alone
GoodNodes(nodes) ==
    {j \in 1..Len(nodes) :
        /\ nodes[j].date
        /\ ~NodeRaises(nodes[j])
        /\ (parse_points(nodes[j].points) # 0 \/ parse_money(nodes[j].cash) # 0)}

\* C13: a node whose parsing raises is skipped alone: the list returned for
\* an OK page holds, in document order, one record for every other node that
\* has a date and a non-zero cash or points value, whether it stands before
\* or after the failing node.
C13_NodeFailureSkipsOnlyThatNode ==
    (pc = "check" /\ page.buttons /\ ~page.blocked) =>
        LET good == GoodNodes(page.nodes)
        IN  /\ Len(flights) = Cardinality(good)
            /\ \A j \in good :
                 LET f == flights[Cardinality({i \in good : i <= j})]
                 IN  /\ f.node = j
                     /\ f.points_required = parse_points(page.nodes[j].points)
                     /\ f.cash_price_usd = parse_money(page.nodes[j].cash)
                     /\ f.departure_time = page.nodes[j].dep

\* a fare, a node whose points text raises, a fare: two records
C13_Witness ==
    /\ pc = "check"
    /\ page.nodes = <<NodeFare, NodeBadPoints, NodeLater>>
    /\ ~page.blocked
    /\ Len(flights) = 2
    /\ flights[1].node = 1 /\ flights[2].node = 3

\* C14: parse_points never raises: "45k" gives 45000, "12,345" gives 12345,
\* and a text without a digit, the letter k alone included, gives 0.
C14_ParsePointsNeverRaises ==
    \A i \in 1..Len(page.nodes) :
        LET t == page.nodes[i].points
            v == parse_points(t)
        IN  /\ v # Raised
            /\ (\A c \in 1..Len(t) : ~IsDigit(t[c])) => v = 0
            /\ t = <<"4", "5", "k">> => v = 45000
            /\ t = <<"1", "2", ",", "3", "4", "5">> => v = 12345

\* C12: rate_limit has no error outcome: whenever it is called and has to
\* sleep, the divisor of the sleep duration is not zero and the duration is
\* between 0 and 3600 seconds.
C12_RateLimitNeverRaises ==
    pc = "rate_limit" =>
        /\ ~RateLimitRaises
        /\ RateSleeps =>
              /\ RateDivisor # 0
              /\ RateSleepTime >= 0
              /\ RateSleepTime <= HourSeconds

\* whether main has slept the backoff of the iteration of attempt a
SleptFor(a) == \E k \in 1..Len(backoffs) : backoffs[k].attempt = a

\* C15: on a retry the session is released, then the backoff is slept, then
\* the new session is acquired: the acquisition of a retry starts after the
\* backoff of its iteration; every attempt after the first is preceded by the
\* backoff 5 * 2^a of each earlier attempt a, also when the new session
\* could not be created or a driver error ended the attempt; no backoff is
\* slept after the final attempt.
C15_BackoffBeforeReacquisition ==
    /\ (caller = "retry" /\ pc \in {"create", "start"}) => SleptFor(attempt)
    /\ pc \in {"rate_limit", "navigate"} =>
          \A a \in 0..(attempt - 1) : SleptFor(a)
    /\ \A k \in 1..Len(backoffs) :
          /\ backoffs[k].delay = 5 * Pow2(backoffs[k].attempt)
          /\ backoffs[k].attempt < max_retries - 1

\* C18: the attempt persists the page before it classifies it: after an
\* attempt whose page showed the fare buttons, a blocked page included,
\* config.debug_html holds that page and a screenshot is on disk, and a
\* failing screenshot does not turn the attempt into a driver error.
C18_DebugFilesBeforeClassification ==
    (page.fetched /\ page.buttons) =>
        /\ debug_html = page
        /\ pc # "except"
        /\ pc = "check" => debug_screenshot

\* C16: a session acquired for a retry is first tried with the proxy: when
\* one of its engine starts is made without the proxy, the session has set
\* the proxy up before (its temporary directory exists) and that try failed;
\* the attempt index alone never disables the proxy.
C16_RetrySessionsStartWithProxy ==
    (caller = "retry" /\ pc = "start" /\ ~browser.use_proxy) =>
        browser.temp_dir # 0

\* the running create_driver call was started by main with retry count 0
FromZero == caller = "init" \/ attempt = 0

\* C17: an acquisition started with retry count 0 makes at most three engine
\* starts (the start made at retry count r is its start number r + 1), the
\* third one without the proxy; a failed start is retried only when it was
\* made with the proxy and the retry count is below 2, each retry raising
\* the count by one; the failure of a start without the proxy, the last one
\* included, is returned to main.
C17_AtMostThreeStarts ==
    /\ []((FromZero /\ pc \in {"create", "start"}) =>
             /\ retry_count <= 2
             /\ (pc = "start" /\ retry_count = 2) => ~browser.use_proxy)
    /\ [][(pc = "start" /\ pc' = "create") =>
             /\ browser.use_proxy
             /\ retry_count < 2
             /\ retry_count' = retry_count + 1]_vars

\* the third start of the first acquisition, after two failed starts
C17_Witness ==
    /\ caller = "init"
    /\ pc = "start"
    /\ retry_count = 2
    /\ ~browser.use_proxy
    /\ Len(dirs) = 2

\* the engines that were created and not yet quit
Live == {e \in 1..Len(engines) : engines[e] = 0}

\* C19: at most one engine is live at every point of a run, and an engine is
\* started only when quit() has been called on every engine started before.
C19_AtMostOneLiveEngine ==
    /\ [](Cardinality(Live) <= 1)
    /\ [][Len(engines') > Len(engines) => Live = {}]_vars

\* the second session fetches with its own engine, the first one's is quit
C19_Witness ==
    /\ pc = "navigate"
    /\ Len(engines) = 2
    /\ engines[1] = 1
    /\ Live = {2}
    /\ browser.driver = 2

\* the retry count the running create_driver call was started with by main
FirstRetryCount == IF caller = "init" THEN 0 ELSE attempt

\* C20: every run in which the external calls return or raise ends; it makes
\* at most max_retries fetch attempts and at most three engine starts in an
\* acquisition, and when it has ended no engine is live.
C20_RunTerminatesWithNoLiveEngine ==
    /\ <>Done
    /\ [](scrapes <= max_retries)
    /\ [](pc \in {"create", "start"} =>
             (retry_count - FirstRetryCount) + 1 <= ProxyRetryLimit + 1)
    /\ [](Done => Live = {})

\* a run that used all its attempts and two sessions has ended
C20_Witness ==
    /\ Done
    /\ max_retries > 1
    /\ scrapes = max_retries
    /\ Len(engines) >= 2
    /\ Live = {}

\* C21: a fetch is started only while the session holds a live engine: at
\* the call of rate_limit and at the navigation browser.driver is an engine
\* that was created and not quit; and no run ends by a fatal error with an
\* engine-less session, a failed acquisition for a retry leading to the
\* exhaustion of the retries instead.
C21_FetchOnlyWithLiveEngine ==
    /\ pc \in {"rate_limit", "navigate"} => browser.driver \in Live
    /\ (pc = "finally" /\ outcome = "fatal") => browser.driver \in Live

=============================================================================
